---- MODULE Spec2Model ----
(***************************************************************************)
(* A model of collector/monitor.go: Monitor construction (NewMonitor with  *)
(* extractApp, extractEnv, sanitizeForGraphite and imageNameRegex) and the *)
(* sampling pipeline of Monitor.handle (the worker goroutine, the          *)
(* unbuffered inlet the docker client writes to, and the caller's output   *)
(* channel).                                                               *)
(*                                                                         *)
(* Go strings are modelled as sequences of one-character strings, so that  *)
(* prefix tests, replacement and the regular expression are computed       *)
(* character by character as the library functions compute them.           *)
(***************************************************************************)
EXTENDS Integers, Sequences, FiniteSets, TLC

\* Go's nil (an absent pointer, an absent error).
Nil == "nil"

(***************************************************************************)
(* Bounds of the model.                                                    *)
(***************************************************************************)
\* Longest environment value / image reference that is enumerated.
MaxLen == 3
\* Largest sampling interval that is enumerated.
MaxInterval == 3
\* Raw samples one Stats call may deliver when a single call is studied.
MaxSamples == 5
\* Raw samples one Stats call may deliver when two calls run side by side.
MaxSamplesMulti == 2
\* Largest capacity of the caller-supplied output channel.
MaxOutCap == 1

(***************************************************************************)
(* strings                                                                 *)
(***************************************************************************)
\* strings.HasPrefix(s, prefix)
HasPrefix(s, prefix) ==
    /\ Len(s) >= Len(prefix)
    /\ SubSeq(s, 1, Len(prefix)) = prefix

\* strings.TrimPrefix(s, prefix): s without the prefix, once, if it has it.
TrimPrefix(s, prefix) ==
    IF HasPrefix(s, prefix) THEN SubSeq(s, Len(prefix) + 1, Len(s)) ELSE s

\* strings.Replace(s, old, new, -1) for a one-character old and new: every
\* occurrence is replaced, the other characters stay in place.
Replace(s, old, new) ==
    [k \in 1..Len(s) |-> IF s[k] = old THEN new ELSE s[k]]

\* A faulty sanitizeForGraphite: the '/' replacement is forgotten.
SanitizeDotsOnly(s) == Replace(s, ".", "_")

\* func sanitizeForGraphite(s string) string
sanitizeForGraphite(s) == Replace(Replace(s, ".", "_"), "/", "_")

\* imageNameRegex (monitor.go line 15): any characters, a slash, a group of
\* characters other than slash, a colon, any characters.
\*
\* A match of the expression in s is a tuple <<b, p, q, e>>: the match
\* starts at b, s[b..p-1] is taken by the leading dot-star (no newline: Go's
\* dot does not match a newline), s[p] is the slash, s[p+1..q-1] is the
\* group (any character but a slash, newline included), s[q] is the colon
\* and s[q+1..e] is the trailing dot-star.
NL == "\n"

NoNewline(s, from, to) == \A k \in from..to : s[k] # NL

RegexMatches(s) ==
    { m \in (1..Len(s)) \X (1..Len(s)) \X (1..Len(s)) \X (1..Len(s)) :
        /\ m[1] <= m[2] /\ m[2] < m[3] /\ m[3] <= m[4]
        /\ NoNewline(s, m[1], m[2] - 1)
        /\ s[m[2]] = "/"
        /\ \A k \in (m[2] + 1)..(m[3] - 1) : s[k] # "/"
        /\ s[m[3]] = ":"
        /\ NoNewline(s, m[3] + 1, m[4]) }

\* The match the regexp package reports: leftmost start, then each greedy
\* operator, in order, takes as much as it can.
Preferred(ms) ==
    CHOOSE m \in ms : \A o \in ms :
        \/ m[1] < o[1]
        \/ m[1] = o[1] /\ m[2] > o[2]
        \/ m[1] = o[1] /\ m[2] = o[2] /\ m[3] > o[3]
        \/ m[1] = o[1] /\ m[2] = o[2] /\ m[3] = o[3] /\ m[4] >= o[4]

\* imageNameRegex.FindStringSubmatch(s): the nil slice (of length 0) when
\* nothing matches, else <<whole match, group 1>>.
FindStringSubmatch(s) ==
    LET ms == RegexMatches(s)
    IN IF ms = {} THEN << >>
       ELSE LET m == Preferred(ms)
            IN << SubSeq(s, m[1], m[4]), SubSeq(s, m[2] + 1, m[3] - 1) >>

(***************************************************************************)
(* extractEnv, extractApp                                                  *)
(***************************************************************************)
CHRONOS_JOB_NAME ==
    <<"C","H","R","O","N","O","S","_","J","O","B","_","N","A","M","E">>
MARATHON_APP_ID ==
    <<"M","A","R","A","T","H","O","N","_","A","P","P","_","I","D">>

\* A faulty extractEnv: the last entry with the prefix wins.
ExtractEnvLast(c, envVar) ==
    LET envPrefix == envVar \o <<"=">>
        env == c.Config.Env
        hits == { k \in 1..Len(env) : HasPrefix(env[k], envPrefix) }
    IN IF hits = {} THEN << >>
       ELSE LET last == CHOOSE k \in hits : \A o \in hits : k >= o
            IN TrimPrefix(env[last], envPrefix)

\* func extractEnv(c *docker.Container, envVar string) string
extractEnv(c, envVar) ==
    LET envPrefix == envVar \o <<"=">>
        env == c.Config.Env
        hits == { k \in 1..Len(env) : HasPrefix(env[k], envPrefix) }
    IN IF hits = {} THEN << >>
       ELSE LET first == CHOOSE k \in hits : \A o \in hits : k <= o
            IN TrimPrefix(env[first], envPrefix)

\* A faulty extractApp: MARATHON_APP_ID is consulted before
\* CHRONOS_JOB_NAME.
ExtractAppMarathonFirst(c) ==
    LET marathon == extractEnv(c, MARATHON_APP_ID)
        chronos == extractEnv(c, CHRONOS_JOB_NAME)
        matches == FindStringSubmatch(c.Config.Image)
    IN IF marathon # << >> THEN TrimPrefix(marathon, <<"/">>)
       ELSE IF chronos # << >> THEN chronos
       ELSE IF Len(matches) < 1 THEN << >>
       ELSE matches[1]

\* A faulty extractApp: the image gives the capture group (the name alone)
\* in place of the whole match.
ExtractAppGroupOne(c) ==
    LET chronos == extractEnv(c, CHRONOS_JOB_NAME)
        marathon == extractEnv(c, MARATHON_APP_ID)
        matches == FindStringSubmatch(c.Config.Image)
    IN IF chronos # << >> THEN chronos
       ELSE IF marathon # << >> THEN TrimPrefix(marathon, <<"/">>)
       ELSE IF Len(matches) < 1 THEN << >>
       ELSE matches[2]

\* func extractApp(c *docker.Container) (app string)
extractApp(c) ==
    LET chronos == extractEnv(c, CHRONOS_JOB_NAME)
        marathon == extractEnv(c, MARATHON_APP_ID)
        matches == FindStringSubmatch(c.Config.Image)
    IN IF chronos # << >> THEN chronos
       ELSE IF marathon # << >> THEN TrimPrefix(marathon, <<"/">>)
       ELSE IF matches = << >> \/ Len(matches) < 1 THEN << >>
       ELSE matches[1]

(***************************************************************************)
(* NewMonitor                                                              *)
(***************************************************************************)
\* var ErrNoNeedToMonitor = errors.New(...)
ErrNoNeedToMonitor == "ErrNoNeedToMonitor"

\* The errors the docker client may return.
ClientErrors == {"errTransport", "errNoSuchContainer"}

\* A nil *Monitor and a nil *docker.Container.
NilMonitor == [nil |-> TRUE]
NilContainer == [nil |-> TRUE]

\* c.InspectContainer(id) of the client c: the pair the client answers with.
InspectContainer(c, id) == [container |-> c.container, err |-> c.inspectErr]

\* container.ID[:8]: the slice expression panics on a string shorter than 8.
SliceFaults(s, n) == Len(s) < n
Slice(s, n) == SubSeq(s, 1, n)

\* if err != nil { return nil, err }: what NewMonitor returns when the
\* inspection failed with err.
\* A faulty version answers with the sentinel instead of the client's error.
InspectFailureMasked(err) ==
    [mon |-> NilMonitor, err |-> ErrNoNeedToMonitor, panic |-> FALSE]

InspectFailure(err) == [mon |-> NilMonitor, err |-> err, panic |-> FALSE]

\* if app == "": the test that declines the container.
\* A faulty version never declines.
NeverDeclines(app) == FALSE

Declines(app) == app = << >>

\* func NewMonitor(c MonitorDockerClient, id string, interval int)
\*     (*Monitor, error)
\* The result is the returned pair, or a run-time panic (no value returned).
NewMonitor(c, id, interval) ==
    LET r == InspectContainer(c, id)
    IN IF r.err # Nil
       THEN InspectFailure(r.err)
       ELSE LET app == sanitizeForGraphite(extractApp(r.container))
            IN IF Declines(app)
               THEN [mon |-> NilMonitor, err |-> ErrNoNeedToMonitor,
                     panic |-> FALSE]
               ELSE IF SliceFaults(r.container.ID, 8)
               THEN [mon |-> NilMonitor, err |-> Nil, panic |-> TRUE]
               ELSE [mon |-> [client |-> c, id |-> r.container.ID,
                              app |-> app,
                              task |-> sanitizeForGraphite(
                                           Slice(r.container.ID, 8)),
                              interval |-> interval],
                     err |-> Nil, panic |-> FALSE]

(***************************************************************************)
(* The inputs that are enumerated                                          *)
(***************************************************************************)
StringsUpTo(chars, n) == UNION { [1..k -> chars] : k \in 0..n }

EnvChars == {"a", ".", "/"}
ImageChars == {"a", "/", ":", ".", NL}

EnvValues == StringsUpTo(EnvChars, MaxLen - 1)
Images == StringsUpTo(ImageChars, MaxLen)

\* Entries that set one of the two variables, and entries that only look
\* like it (no '=', a longer name, another variable).
EnvEntries ==
    { n \o <<"=">> \o v : n \in {CHRONOS_JOB_NAME, MARATHON_APP_ID},
                          v \in EnvValues }
    \cup { CHRONOS_JOB_NAME,
           <<"X">> \o MARATHON_APP_ID \o <<"=", "a">>,
           <<"P", "A", "T", "H", "=", "/">> }

EnvLists ==
    { << >> } \cup { <<e>> : e \in EnvEntries }
              \cup { <<e, f>> : e \in EnvEntries, f \in EnvEntries }

\* "registry.example.com/myapp:1.2", shortened, and a reference the
\* expression does not match.
FewImages == { <<"r", ".", "/", "a", ":", "1", ".", "2">>,
               <<"a", ":", "1">> }
FewEnvs == { << >>,
             << <<"P", "A", "T", "H", "=", "/">> >>,
             << MARATHON_APP_ID \o <<"=", "/", "g", "/", "s">> >>,
             << CHRONOS_JOB_NAME \o <<"=">>,
                MARATHON_APP_ID \o <<"=">> >> }

\* Container IDs: "abcdef1234567890", an 8-character ID with the two
\* characters sanitization replaces, and an ID shorter than 8 characters.
ContainerIDs ==
    { <<"a","b","c","d","e","f","1","2","3","4","5","6","7","8","9","0">>,
      <<"a",".","c","/","e","f","1","2">>,
      <<"a","b","c","d","e","f","1">> }

Container(id, env, image) ==
    [ID |-> id, Config |-> [Env |-> env, Image |-> image]]

Containers ==
    { Container(id, env, image) :
        id \in ContainerIDs, env \in EnvLists, image \in FewImages }
    \cup { Container(id, env, image) :
        id \in ContainerIDs, env \in FewEnvs, image \in Images }

\* The docker clients: one that fails the inspection with an error, one that
\* answers with a container.
Clients ==
    { [container |-> NilContainer, inspectErr |-> e] : e \in ClientErrors }
    \cup { [container |-> c, inspectErr |-> Nil] : c \in Containers }

\* The id a caller asks for (a container name; the client answers with the
\* canonical ID in the container).
RequestedIDs == { <<"w", "e", "b">> }

\* NewMonitor takes any int: negative, zero and positive intervals.
Intervals == (0 - MaxInterval)..MaxInterval

(***************************************************************************)
(* State                                                                   *)
(***************************************************************************)
VARIABLES
    client,       \* the docker client handed to NewMonitor
    argId,        \* NewMonitor's id argument
    argInterval,  \* NewMonitor's interval argument
    newRet,       \* what NewMonitor returned, NotCalled before the call
    mons,         \* the constructed Monitors handle is invoked on
    budget,       \* [calls, samples]: invocations and raw samples studied
    outCap,       \* capacity of the caller's output channel ch
    hpc,          \* per invocation: idle, streaming, closing, returned
    hmon,         \* per invocation: the Monitor (index in mons) it runs on
    statsCalls,   \* per invocation: calls of client.Stats made
    statsRet,     \* per invocation: what client.Stats returned
    overlap,      \* history: handle was called on a Monitor it was running on
    ret,          \* per invocation: what handle returned
    inClosed,     \* per invocation: the inlet `in` has been closed
    nraw,         \* per invocation: raw samples the source handed over
    wpc,          \* per invocation: the worker goroutine's position
    i,            \* per invocation: the worker's counter i
    s,            \* per invocation: the raw sample the worker holds
    dropped,      \* per invocation: indices of the samples discarded
    outq,         \* the buffer of ch
    received,     \* what the consumer has received from ch, in order
    abandoned,    \* the consumer has stopped receiving
    outClosed,    \* ch has been closed
    crashed       \* a goroutine panicked: the process is gone

conVars == <<client, argId, argInterval, newRet>>
cfgVars == <<mons, budget, outCap>>
drvVars == <<hpc, hmon, statsCalls, statsRet, overlap, ret, inClosed, nraw>>
wrkVars == <<wpc, i, s, dropped>>
outVars == <<outq, received, abandoned, outClosed>>
vars == <<conVars, cfgVars, drvVars, wrkVars, outVars, crashed>>

\* The invocations of handle that are told apart.
Calls == {1, 2}

NotCalled == [mon |-> NilMonitor, err |-> "not called", panic |-> FALSE]
Pending == "pending"
NoSample == [call |-> 0, idx |-> 0 - 1]

\* The state of the pipeline before any handle call.
PipelineIdle ==
    /\ hpc = [h \in Calls |-> "idle"]
    /\ hmon = [h \in Calls |-> 0]
    /\ statsCalls = [h \in Calls |-> 0]
    /\ statsRet = [h \in Calls |-> Pending]
    /\ overlap = FALSE
    /\ ret = [h \in Calls |-> Pending]
    /\ inClosed = [h \in Calls |-> FALSE]
    /\ nraw = [h \in Calls |-> 0]
    /\ wpc = [h \in Calls |-> "none"]
    /\ i = [h \in Calls |-> 0]
    /\ s = [h \in Calls |-> NoSample]
    /\ dropped = [h \in Calls |-> {}]
    /\ outq = << >>
    /\ received = << >>
    /\ abandoned = FALSE
    /\ outClosed = FALSE
    /\ crashed = FALSE

(***************************************************************************)
(* Construction: the inputs are drawn, NewMonitor is applied to them.      *)
(***************************************************************************)
InitConstruct ==
    /\ client \in Clients
    /\ argId \in RequestedIDs
    /\ argInterval \in {0, MaxInterval}
    /\ newRet = NotCalled
    /\ mons = << >>
    /\ budget = [calls |-> 0, samples |-> 0]
    /\ outCap = 0
    /\ PipelineIdle

CallNewMonitor ==
    /\ newRet = NotCalled
    /\ newRet' = NewMonitor(client, argId, argInterval)
    /\ UNCHANGED <<client, argId, argInterval, cfgVars, drvVars, wrkVars,
                   outVars, crashed>>

NextConstruct == CallNewMonitor

SpecConstruct == InitConstruct /\ [][NextConstruct]_vars

(***************************************************************************)
(* The sampling pipeline: Monitor.handle                                   *)
(***************************************************************************)
\* Go's a % b for b # 0: the result has the sign of the dividend.
GoRem(a, b) ==
    LET abs(x) == IF x < 0 THEN 0 - x ELSE x
        r == abs(a) % abs(b)
    IN IF a < 0 THEN 0 - r ELSE r

\* i % m.interval panics (integer divide by zero) exactly when the interval
\* is 0.
\* A faulty version has the remainder by a negative number panic as well.
RemFaultsNonPositive(b) == b <= 0

RemFaults(b) == b = 0

\* The test of line 63 negated: the sample counted i is forwarded.
\* A faulty version strides over the samples after the first one.
ForwardsOffByOne(n, interval) == GoRem(n + 1, interval) = 0

Forwards(n, interval) == GoRem(n, interval) = 0

\* i++ (lines 64 and 74).
\* A faulty version leaves the counter alone.
CounterStuck(n) == n

NextCount(n) == n + 1

\* in := make(chan *docker.Stats): the inlet has no buffer, so the source
\* hands a sample over only to a worker waiting at `range in`.
\* A faulty version lets the source hand over at any time.
InletAlwaysReady(pc) == pc \in {"recv", "check", "send"}

InletReady(pc) == pc = "recv"

\* `for s := range in` ends once the inlet is closed (and empty).
\* A faulty version never notices the close.
RangeNeverEnds(closed) == FALSE

RangeEnds(closed) == closed

\* Stats{App: m.app, Task: m.task, Stats: *s}
\* A faulty version labels the sample with the container ID.
LabelWithID(m, sample) == [App |-> m.id, Task |-> m.task, Stats |-> sample]

Label(m, sample) == [App |-> m.app, Task |-> m.task, Stats |-> sample]

\* ch <- x on a channel whose buffer is q.
\* A faulty version puts the newest sample first.
PutFirst(q, x) == <<x>> \o q

Put(q, x) == Append(q, x)

\* return m.client.Stats(...): handle's result, given what Stats returned.
\* A faulty version swallows the error.
SwallowError(e) == Nil

HandleResult(e) == e

Monitor(h) == mons[hmon[h]]

\* The goroutine's function ends right after the loop (lines 75, 76): there
\* is no close(ch), ch stays as it was.
\* A faulty version closes ch when the loop has ended.
CloseAfterLoop(closed) == TRUE

AfterLoop(closed) == closed

\* i := 0 is declared inside the goroutine that handle starts: every
\* invocation has a counter of its own.
\* A faulty version has all invocations count in one shared counter.
SharedCounter(h) == 1

CounterOf(h) == h

\* m.handle(ch) is called: the inlet is made, the worker goroutine started
\* (i := 0, then waiting at `range in`) and client.Stats called.
Handle(h, m) ==
    /\ ~crashed
    /\ h <= budget.calls
    /\ hpc[h] = "idle"
    /\ hpc' = [hpc EXCEPT ![h] = "streaming"]
    /\ hmon' = [hmon EXCEPT ![h] = m]
    /\ statsCalls' = [statsCalls EXCEPT ![h] = @ + 1]
    /\ wpc' = [wpc EXCEPT ![h] = "recv"]
    /\ i' = [i EXCEPT ![CounterOf(h)] = 0]
    /\ overlap' = (overlap \/ \E g \in Calls :
                      hmon[g] = m /\ hpc[g] \in {"streaming", "closing"})
    /\ UNCHANGED <<conVars, cfgVars, statsRet, ret, inClosed, nraw, s,
                   dropped, outVars, crashed>>

\* client.Stats writes the next raw sample to the inlet and the worker's
\* `for s := range in` receives it.
StatsSample(h) ==
    /\ ~crashed
    /\ hpc[h] = "streaming"
    /\ nraw[h] < budget.samples
    /\ InletReady(wpc[h])
    /\ s' = [s EXCEPT ![h] = [call |-> h, idx |-> nraw[h]]]
    /\ nraw' = [nraw EXCEPT ![h] = @ + 1]
    /\ wpc' = [wpc EXCEPT ![h] = "check"]
    /\ UNCHANGED <<conVars, cfgVars, hpc, hmon, statsCalls, statsRet, overlap,
                   ret, inClosed, i, dropped, outVars, crashed>>

\* if i%m.interval != 0 { i++; continue }: the sample is discarded, or the
\* worker goes on to send it; the remainder by 0 panics.
WorkerCheck(h) ==
    /\ ~crashed
    /\ wpc[h] = "check"
    /\ IF RemFaults(Monitor(h).interval)
       THEN /\ wpc' = [wpc EXCEPT ![h] = "panic"]
            /\ crashed' = TRUE
            /\ UNCHANGED <<i, s, dropped>>
       ELSE IF Forwards(i[CounterOf(h)], Monitor(h).interval)
       THEN /\ wpc' = [wpc EXCEPT ![h] = "send"]
            /\ UNCHANGED <<i, s, dropped, crashed>>
       ELSE /\ i' = [i EXCEPT ![CounterOf(h)] = NextCount(@)]
            /\ dropped' = [dropped EXCEPT ![h] = @ \cup {s[h].idx}]
            /\ s' = [s EXCEPT ![h] = NoSample]
            /\ wpc' = [wpc EXCEPT ![h] = "recv"]
            /\ UNCHANGED crashed
    /\ UNCHANGED <<conVars, cfgVars, drvVars, outVars>>

\* ch <- Stats{...}; i++ on a channel with room in its buffer.
WorkerSend(h) ==
    /\ ~crashed
    /\ wpc[h] = "send"
    /\ Len(outq) < outCap
    /\ outq' = Put(outq, Label(Monitor(h), s[h]))
    /\ i' = [i EXCEPT ![CounterOf(h)] = NextCount(@)]
    /\ s' = [s EXCEPT ![h] = NoSample]
    /\ wpc' = [wpc EXCEPT ![h] = "recv"]
    /\ UNCHANGED <<conVars, cfgVars, drvVars, dropped, received, abandoned,
                   outClosed, crashed>>

\* ch <- Stats{...}; i++ on a channel without buffer: the send completes
\* with the consumer's receive.
WorkerDeliver(h) ==
    /\ ~crashed
    /\ wpc[h] = "send"
    /\ outCap = 0
    /\ ~abandoned
    /\ received' = Put(received, Label(Monitor(h), s[h]))
    /\ i' = [i EXCEPT ![CounterOf(h)] = NextCount(@)]
    /\ s' = [s EXCEPT ![h] = NoSample]
    /\ wpc' = [wpc EXCEPT ![h] = "recv"]
    /\ UNCHANGED <<conVars, cfgVars, drvVars, dropped, outq, abandoned,
                   outClosed, crashed>>

\* `range in` on the closed, empty inlet: the loop and the goroutine end.
WorkerExit(h) ==
    /\ ~crashed
    /\ wpc[h] = "recv"
    /\ RangeEnds(inClosed[h])
    /\ wpc' = [wpc EXCEPT ![h] = "done"]
    /\ outClosed' = AfterLoop(outClosed)
    /\ UNCHANGED <<conVars, cfgVars, drvVars, i, s, dropped, outq, received,
                   abandoned, crashed>>

\* client.Stats ends, with or without an error: the docker client closes
\* the channel it was given when it finishes.
StatsEnd(h, e) ==
    /\ ~crashed
    /\ hpc[h] = "streaming"
    /\ hpc' = [hpc EXCEPT ![h] = "closing"]
    /\ inClosed' = [inClosed EXCEPT ![h] = TRUE]
    /\ statsRet' = [statsRet EXCEPT ![h] = e]
    /\ UNCHANGED <<conVars, cfgVars, hmon, statsCalls, overlap, ret, nraw,
                   wrkVars, outVars, crashed>>

\* return m.client.Stats(...)
HandleReturn(h) ==
    /\ ~crashed
    /\ hpc[h] = "closing"
    /\ hpc' = [hpc EXCEPT ![h] = "returned"]
    /\ ret' = [ret EXCEPT ![h] = HandleResult(statsRet[h])]
    /\ UNCHANGED <<conVars, cfgVars, hmon, statsCalls, statsRet, overlap,
                   inClosed, nraw, wrkVars, outVars, crashed>>

\* The consumer takes the oldest sample out of the buffer of ch.
ConsumerReceive ==
    /\ ~crashed
    /\ ~abandoned
    /\ outq # << >>
    /\ received' = Append(received, Head(outq))
    /\ outq' = Tail(outq)
    /\ UNCHANGED <<conVars, cfgVars, drvVars, wrkVars, abandoned, outClosed,
                   crashed>>

\* The consumer stops receiving from ch, for good.
ConsumerAbandon ==
    /\ ~crashed
    /\ ~abandoned
    /\ abandoned' = TRUE
    /\ UNCHANGED <<conVars, cfgVars, drvVars, wrkVars, outq, received,
                   outClosed, crashed>>

\* The Monitors handle runs on: NewMonitor's result for a container that is
\* to be monitored.
ClientA ==
    [container |->
        Container(<<"a","b","c","d","e","f","1","2","3","4","5","6","7","8",
                    "9","0">>,
                  << MARATHON_APP_ID \o <<"=", "/", "g", "/", "s">> >>,
                  <<"a", ":", "1">>),
     inspectErr |-> Nil]
ClientB ==
    [container |->
        Container(<<"a",".","c","/","e","f","1","2">>,
                  << >>,
                  <<"r", ".", "/", "a", ":", "1", ".", "2">>),
     inspectErr |-> Nil]

InitPipeline(calls, samples, intervals) ==
    /\ client = ClientA
    /\ argId \in RequestedIDs
    /\ argInterval \in intervals
    /\ newRet = NewMonitor(client, argId, argInterval)
    /\ mons = << newRet.mon, NewMonitor(ClientB, argId, 2).mon >>
    /\ budget = [calls |-> calls, samples |-> samples]
    /\ outCap \in 0..MaxOutCap
    /\ PipelineIdle

\* One handle call.
Init == InitPipeline(1, MaxSamples, Intervals)

\* Two handle calls side by side, on the same or on different Monitors.
InitMulti == InitPipeline(2, MaxSamplesMulti, {1})

NextServed ==
    \/ \E h \in Calls, m \in DOMAIN mons : Handle(h, m)
    \/ \E h \in Calls : StatsSample(h)
    \/ \E h \in Calls : WorkerCheck(h)
    \/ \E h \in Calls : WorkerSend(h)
    \/ \E h \in Calls : WorkerDeliver(h)
    \/ \E h \in Calls : WorkerExit(h)
    \/ \E h \in Calls, e \in {Nil} \cup ClientErrors : StatsEnd(h, e)
    \/ \E h \in Calls : HandleReturn(h)
    \/ ConsumerReceive

Next == NextServed \/ ConsumerAbandon

Spec == Init /\ [][Next]_vars

SpecMulti == InitMulti /\ [][Next]_vars

\* The Go scheduler runs every goroutine that can take a step, and the
\* consumer keeps receiving.
Fairness ==
    /\ \A h \in Calls : WF_vars(WorkerCheck(h))
    /\ \A h \in Calls : WF_vars(WorkerSend(h))
    /\ \A h \in Calls : WF_vars(WorkerDeliver(h))
    /\ \A h \in Calls : WF_vars(WorkerExit(h))
    /\ \A h \in Calls : WF_vars(HandleReturn(h))
    /\ WF_vars(ConsumerReceive)

SpecFair == Init /\ [][NextServed]_vars /\ Fairness

(***************************************************************************)
(* Properties                                                              *)
(***************************************************************************)
\* Everything sent to ch so far, in the order it was sent.
ChannelContent == received \o outq

\* The part of it that invocation h sent.
Sent(h) ==
    LET FromH(x) == x.Stats.call = h
    IN SelectSeq(ChannelContent, FromH)

Started(h) == hpc[h] # "idle"

\* The raw samples handed over to h that the worker has dealt with.
Settled(h) ==
    IF wpc[h] \in {"check", "send", "panic"} THEN nraw[h] - 1 ELSE nraw[h]

\* The indices handed over so far that are multiples of n (n > 0).
Multiples(h, n) == { k \in 0..(nraw[h] - 1) : k % n = 0 }

\* C1: with an interval N > 0, what an invocation has sent to the output
\* channel is, in order, the raw samples 0, N, 2N, ... it was handed, each
\* labelled with the Monitor's app and task, and it is all of them whenever
\* the worker holds no sample; the counter i counts every raw sample dealt
\* with.  With N = 1 every sample is forwarded; 5 samples with N = 3 give
\* exactly the samples 0 and 3.
C1_StrideForwarding ==
    \A h \in Calls :
        (Started(h) /\ Monitor(h).interval > 0) =>
            LET n == Monitor(h).interval
                out == Sent(h)
            IN /\ \A k \in 1..Len(out) :
                    out[k] = [App |-> Monitor(h).app,
                              Task |-> Monitor(h).task,
                              Stats |-> [call |-> h, idx |-> (k - 1) * n]]
               /\ Len(out) <= Cardinality(Multiples(h, n))
               /\ (wpc[h] \in {"recv", "done"}) =>
                      Len(out) = Cardinality(Multiples(h, n))
               /\ i[h] = Settled(h)
               /\ (n = 1 /\ wpc[h] = "done") => Len(out) = nraw[h]
               /\ (n = 3 /\ nraw[h] = 5 /\ wpc[h] = "done") =>
                      [k \in 1..Len(out) |-> out[k].Stats.idx] = <<0, 3>>

\* C1 witness: the source closed after 5 samples, the interval is 3 and the
\* worker has ended with two samples received by the consumer.
C1_Witness ==
    /\ wpc[1] = "done"
    /\ nraw[1] = 5
    /\ Monitor(1).interval = 3
    /\ Len(received) = 2

\* The raw samples of h that are in the pipeline: handed over, and neither
\* sent to ch nor discarded.
InPipeline(h) == nraw[h] - Len(Sent(h)) - Cardinality(dropped[h])

SentIdx(h) == { Sent(h)[k].Stats.idx : k \in 1..Len(Sent(h)) }

HeldIdx(h) ==
    IF wpc[h] \in {"check", "send", "panic"} THEN {s[h].idx} ELSE {}

\* C2: a worker whose consumer is not ready waits with its sample: no
\* sample whose index is a multiple of the interval is ever discarded,
\* every raw sample handed over is sent, discarded or the one sample in the
\* worker's hands, and at most one raw sample is in the pipeline.
C2_BackpressureNoLoss ==
    \A h \in Calls :
        Started(h) =>
            LET n == Monitor(h).interval
                m == IF n < 0 THEN 0 - n ELSE n
            IN /\ InPipeline(h) \in {0, 1}
               /\ InPipeline(h) = Cardinality(HeldIdx(h))
               /\ SentIdx(h) \cup dropped[h] \cup HeldIdx(h)
                     = 0..(nraw[h] - 1)
               /\ Cardinality(SentIdx(h)) = Len(Sent(h))
               /\ m # 0 => \A k \in dropped[h] : k % m # 0
               /\ m # 0 => \A k \in 0..(nraw[h] - 1) :
                             k % m = 0 => k \in SentIdx(h) \cup HeldIdx(h)

\* C2 witness: the worker is blocked on the send of sample 3 to a full
\* channel whose consumer has stopped, and the source cannot hand over the
\* next sample.
C2_Witness ==
    /\ wpc[1] = "send"
    /\ s[1].idx = 3
    /\ abandoned
    /\ Len(outq) = outCap
    /\ hpc[1] = "streaming"
    /\ nraw[1] < budget.samples
    /\ ~ ENABLED StatsSample(1)

\* The workers at the send of one of Monitor m's samples.
Writers(m) == { h \in Calls : hmon[h] = m /\ wpc[h] = "send" }

\* The samples labelled as Monitor m's that were sent to ch, in order.
SamplesOf(m) ==
    LET OfM(x) == x.App = mons[m].app /\ x.Task = mons[m].task
    IN SelectSeq(ChannelContent, OfM)

\* The samples of q are in the order the source delivered them.
InArrivalOrder(q) ==
    \A j, k \in 1..Len(q) : j < k => q[j].Stats.idx < q[k].Stats.idx

\* C3 as stated: of one Monitor's samples at most one worker is writing at
\* any time.  It is stated here for the runs in which handle is called
\* again on a Monitor only after its earlier call has returned, and for the
\* states in which the channel has no room, so that every writer counted
\* is blocked on its send.
C3_OneWriterPerMonitor ==
    (~overlap /\ Len(outq) = outCap) =>
        \A m \in DOMAIN mons : Cardinality(Writers(m)) <= 1

\* C3 as amended: each invocation's samples are on the output channel in
\* the order the source delivered them, and a Monitor handle was called on
\* once has at most one worker writing and all its samples in that order.
C3_OrderPerInvocation ==
    /\ \A h \in Calls : InArrivalOrder(Sent(h))
    /\ \A m \in DOMAIN mons :
          Cardinality({ h \in Calls : hmon[h] = m }) <= 1 =>
              /\ Cardinality(Writers(m)) <= 1
              /\ InArrivalOrder(SamplesOf(m))

\* C3 witness: two invocations on different Monitors (intervals 1 and 2)
\* have forwarded every qualifying sample of two through the same channel.
C3_Witness ==
    /\ hmon = <<1, 2>>
    /\ Len(Sent(1)) = 2
    /\ Len(Sent(2)) = 1
    /\ Len(SamplesOf(1)) = 2

\* The number of raw samples handed to h whose index the stride forwards.
Qualifying(h) ==
    LET n == Monitor(h).interval
        m == IF n < 0 THEN 0 - n ELSE n
    IN Cardinality({ k \in 0..(nraw[h] - 1) : k % m = 0 })

\* x is a labelled raw sample of h, and nothing else.
IsSampleOf(x, h) ==
    /\ DOMAIN x = {"App", "Task", "Stats"}
    /\ x.App = Monitor(h).app
    /\ x.Task = Monitor(h).task
    /\ x.Stats.call = h
    /\ x.Stats.idx \in 0..(nraw[h] - 1)

\* C4: once the source has closed the inlet the worker ends (the interval
\* not being 0, the consumer receiving); what it has put on the output
\* channel by then is the forwarded samples and nothing else, and after it
\* has ended the invocation writes nothing more.
C4_WorkerEndsSilently ==
    /\ \A h \in Calls :
          (inClosed[h] /\ Monitor(h).interval # 0) ~> (wpc[h] = "done")
    /\ [](\A h \in Calls : wpc[h] = "done" =>
            /\ \A k \in 1..Len(Sent(h)) : IsSampleOf(Sent(h)[k], h)
            /\ Len(Sent(h)) = Qualifying(h))
    /\ [][\A h \in Calls : wpc[h] = "done" =>
            (wpc'[h] = "done" /\ Sent(h)' = Sent(h))]_vars

\* C4 witness: the source closed the inlet without an error and the worker
\* has ended after forwarding samples.
C4_Witness ==
    /\ inClosed[1]
    /\ statsRet[1] = Nil
    /\ wpc[1] = "done"
    /\ Len(Sent(1)) >= 2

\* C5: handle calls client.Stats once and never again, has no result
\* before Stats has ended, and returns what Stats returned: its error
\* unchanged, or no error.
C5_ReturnsStatsResult ==
    \A h \in Calls :
        /\ statsCalls[h] = (IF Started(h) THEN 1 ELSE 0)
        /\ hpc[h] = "returned" => (ret[h] = statsRet[h] /\ ret[h] # Pending)
        /\ hpc[h] # "returned" => ret[h] = Pending
        /\ hpc[h] \in {"idle", "streaming"} => statsRet[h] = Pending

\* C5 witness: handle has returned the client's error after samples were
\* forwarded.
C5_Witness ==
    /\ hpc[1] = "returned"
    /\ ret[1] = "errTransport"
    /\ statsCalls[1] = 1
    /\ Len(Sent(1)) >= 1

\* C6: when client.Stats fails after samples were delivered, the worker's
\* loop ends (the interval not being 0), all that the invocation ever puts
\* on the output channel is labelled raw samples, no more than the stride
\* forwards, and the error is what handle returns.
C6_FailureEndsWorkerQuietly ==
    /\ \A h \in Calls :
          (statsRet[h] \in ClientErrors /\ nraw[h] >= 1
              /\ Monitor(h).interval # 0) ~> (wpc[h] = "done")
    /\ [](\A h \in Calls : statsRet[h] \in ClientErrors =>
            /\ \A k \in 1..Len(Sent(h)) : IsSampleOf(Sent(h)[k], h)
            /\ Monitor(h).interval # 0 => Len(Sent(h)) <= Qualifying(h)
            /\ hpc[h] = "returned" => ret[h] = statsRet[h])

\* C6 witness: Stats failed after three samples, the worker has ended and
\* handle has returned the error.
C6_Witness ==
    /\ statsRet[1] = "errNoSuchContainer"
    /\ nraw[1] = 3
    /\ wpc[1] = "done"
    /\ ret[1] = "errNoSuchContainer"
    /\ Len(Sent(1)) >= 1

(***************************************************************************)
(* Properties of construction                                              *)
(***************************************************************************)
Called == newRet # NotCalled

Inspected == client.inspectErr = Nil

\* NewMonitor returned a Monitor.
Constructed == Called /\ newRet.mon # NilMonitor

\* NewMonitor returned the sentinel and no Monitor.
Declined ==
    Called /\ newRet.err = ErrNoNeedToMonitor /\ newRet.mon = NilMonitor

\* The value of the first entry NAME=value of the environment, empty when
\* there is none (read off the list entry by entry).
RECURSIVE Lookup(_, _)
Lookup(env, name) ==
    IF env = << >> THEN << >>
    ELSE LET e == Head(env)
             n == Len(name)
         IN IF Len(e) > n /\ SubSeq(e, 1, n) = name /\ e[n + 1] = "="
            THEN SubSeq(e, n + 2, Len(e))
            ELSE Lookup(Tail(env), name)

\* v with every '.' and '/' turned into '_'.
Underscored(v) ==
    [k \in 1..Len(v) |-> IF v[k] \in {".", "/"} THEN "_" ELSE v[k]]

\* v without one leading '/'.
WithoutLeadingSlash(v) == IF v # << >> /\ v[1] = "/" THEN Tail(v) ELSE v

\* The image reference has a '/' followed, with no '/' in between, by ':'.
HasNameAndTag(image) ==
    \E p, q \in 1..Len(image) :
        /\ p < q
        /\ image[p] = "/"
        /\ image[q] = ":"
        /\ \A k \in (p + 1)..(q - 1) : image[k] # "/"

\* C7: after a successful inspection NewMonitor returns the sentinel and no
\* Monitor exactly when the sanitized app is empty, which it is when no
\* environment label is set and the image does not match; a Monitor that
\* was constructed has a non-empty app.
C7_DeclineIffEmptyApp ==
    (Called /\ Inspected) =>
        LET c == client.container
            app == sanitizeForGraphite(extractApp(c))
        IN /\ Declined <=> app = << >>
           /\ newRet.err = ErrNoNeedToMonitor <=> app = << >>
           /\ (/\ Lookup(c.Config.Env, CHRONOS_JOB_NAME) = << >>
               /\ Lookup(c.Config.Env, MARATHON_APP_ID) = << >>
               /\ ~HasNameAndTag(c.Config.Image)) => Declined
           /\ Constructed => (newRet.mon.app # << >> /\ newRet.err = Nil)

\* C7 witness: a container without labels whose image does not match was
\* declined.
C7_Witness ==
    /\ Declined
    /\ Inspected
    /\ client.container.Config.Env = << >>
    /\ client.container.Config.Image = <<"a", ":", "1">>

\* C8: when the inspection fails with an error, NewMonitor returns that
\* error and no Monitor, does not fault on the absent container, and the
\* error is not the sentinel.
C8_InspectionErrorReturned ==
    (Called /\ ~Inspected) =>
        /\ newRet.err = client.inspectErr
        /\ newRet.mon = NilMonitor
        /\ ~newRet.panic
        /\ newRet.err # ErrNoNeedToMonitor
        /\ ~Declined

\* C8 witness: NewMonitor has returned the client's error.
C8_Witness ==
    /\ Called
    /\ client.inspectErr = "errNoSuchContainer"
    /\ newRet.err = "errNoSuchContainer"

\* The app NewMonitor settled on: the Monitor's, or the empty one when it
\* declined.
ResolvedApp == IF Constructed THEN newRet.mon.app ELSE << >>

\* C9: a non-empty CHRONOS_JOB_NAME gives the app (sanitized) whatever
\* MARATHON_APP_ID and the image are; otherwise a non-empty MARATHON_APP_ID
\* gives it, one leading '/' removed, then sanitized ("/g/s" gives "g_s"),
\* whatever the image is.
C9_IdentityPrecedence ==
    (Called /\ Inspected /\ ~newRet.panic) =>
        LET env == client.container.Config.Env
            chronos == Lookup(env, CHRONOS_JOB_NAME)
            marathon == Lookup(env, MARATHON_APP_ID)
        IN /\ chronos # << >> => ResolvedApp = Underscored(chronos)
           /\ (chronos = << >> /\ marathon # << >>) =>
                 ResolvedApp = Underscored(WithoutLeadingSlash(marathon))
           /\ marathon = <<"/", "g", "/", "s">> /\ chronos = << >> =>
                 ResolvedApp = <<"g", "_", "s">>
           /\ (chronos # << >> \/ marathon # << >>) =>
                 (Declined <=> ResolvedApp = << >>)

\* C9 witness: both variables are set, each to a value with a leading '/',
\* the image matches, and the Monitor's app is CHRONOS_JOB_NAME's value.
C9_Witness ==
    /\ Constructed
    /\ Lookup(client.container.Config.Env, CHRONOS_JOB_NAME) = <<"/", "a">>
    /\ Lookup(client.container.Config.Env, MARATHON_APP_ID) = <<"/", ".">>
    /\ HasNameAndTag(client.container.Config.Image)
    /\ newRet.mon.app = <<"_", "a">>

\* C10: the app and the task NewMonitor stores are the sanitized strings:
\* of the length of the unsanitized one, without '.' and '/', every other
\* character unchanged in its place, and sanitizing them again changes
\* nothing.
C10_SanitizeTotalIdempotent ==
    Constructed =>
        LET Sanitized(raw, res) ==
                /\ Len(res) = Len(raw)
                /\ \A k \in 1..Len(raw) :
                      /\ res[k] \notin {".", "/"}
                      /\ raw[k] \notin {".", "/"} => res[k] = raw[k]
                      /\ raw[k] \in {".", "/"} => res[k] = "_"
                /\ sanitizeForGraphite(res) = res
        IN /\ Sanitized(extractApp(client.container), newRet.mon.app)
           /\ Sanitized(SubSeq(client.container.ID, 1, 8), newRet.mon.task)

\* C10 witness: an app with a '.' and a '/' (the image "./:") and an ID with
\* both were sanitized.
C10_Witness ==
    /\ Constructed
    /\ extractApp(client.container) = <<".", "/", ":">>
    /\ newRet.mon.app = <<"_", "_", ":">>
    /\ newRet.mon.task = <<"a", "_", "c", "_", "e", "f", "1", "2">>

\* C11 as stated: whatever a successful inspection returns (any
\* environment, image and container ID, also an ID shorter than 8
\* characters), NewMonitor does not fault: it declines, or returns a Monitor
\* whose task is the sanitized first 8 characters of the ID.
C11_ResolutionNeverFaults ==
    (Called /\ Inspected) =>
        /\ ~newRet.panic
        /\ \/ Declined
           \/ /\ Constructed
              /\ newRet.mon.task =
                    Underscored(SubSeq(client.container.ID, 1, 8))

\* The phase of invocation h in the life cycle Idle, Streaming, Closed,
\* Failed: which one the client.Stats call has put it in.
Phase(h) ==
    IF hpc[h] = "idle" THEN "Idle"
    ELSE IF hpc[h] = "streaming" THEN "Streaming"
    ELSE IF statsRet[h] = Nil THEN "Closed"
    ELSE "Failed"

\* C12: an invocation goes from Idle to Streaming when handle is called,
\* from Streaming to Closed only with a Stats call that ended without error
\* and to Failed only with one that returned an error; Closed and Failed
\* are never left; handle has not returned while the invocation is
\* Streaming, and what it returns tells Closed (no error) from Failed.
C12_StreamStateMachine ==
    /\ [](\A h \in Calls :
            /\ Phase(h) = "Closed" <=>
                  (hpc[h] \in {"closing", "returned"} /\ statsRet[h] = Nil)
            /\ Phase(h) = "Failed" <=>
                  (hpc[h] \in {"closing", "returned"}
                      /\ statsRet[h] \in ClientErrors)
            /\ Phase(h) \in {"Idle", "Streaming"} =>
                  (ret[h] = Pending /\ statsRet[h] = Pending)
            /\ hpc[h] = "returned" =>
                  /\ Phase(h) = "Closed" <=> ret[h] = Nil
                  /\ Phase(h) = "Failed" <=> ret[h] \in ClientErrors)
    /\ [][\A h \in Calls :
            \/ Phase(h)' = Phase(h)
            \/ Phase(h) = "Idle" /\ Phase(h)' = "Streaming"
            \/ Phase(h) = "Streaming" /\ Phase(h)' \in {"Closed", "Failed"}]_vars

\* C12 witness: one invocation has ended Failed and has returned, another
\* one is Streaming.
C12_Witness ==
    /\ Phase(1) = "Failed"
    /\ hpc[1] = "returned"
    /\ nraw[1] >= 1
    /\ Phase(2) = "Streaming"

\* C13 as stated: once the consumer has stopped receiving, a worker that
\* has reached a sample to forward stays at its send.
C13_BlocksAtFirstForward ==
    [][\A h \in Calls :
          (abandoned /\ wpc[h] = "send") => wpc'[h] = "send"]_vars

\* C13 as amended: once the consumer has stopped receiving and the output
\* channel has no room (always so for a channel without buffer), a worker
\* at its send stays there whatever happens, the close of the inlet and
\* the return of handle included; the source hands it no further sample,
\* the consumer never comes back and the channel keeps its content.
C13_BlockedForever ==
    [][\A h \in Calls :
          (abandoned /\ wpc[h] = "send" /\ Len(outq) >= outCap) =>
              /\ wpc'[h] = "send"
              /\ nraw'[h] = nraw[h]
              /\ s'[h] = s[h]
              /\ abandoned'
              /\ outq' = outq
              /\ received' = received]_vars

\* C13 witness: the consumer is gone, the channel has no buffer, the worker
\* is at the send of sample 2, the source has closed the inlet and handle
\* has returned.
C13_Witness ==
    /\ abandoned
    /\ outCap = 0
    /\ wpc[1] = "send"
    /\ s[1].idx = 2
    /\ hpc[1] = "returned"

\* C14 as stated: with any interval <= 0, zero or negative, a worker that
\* has taken up a raw sample has faulted on the remainder (it neither
\* forwards nor discards the sample).
C14_FaultsForAllNonPositive ==
    \A h \in Calls :
        (Started(h) /\ Monitor(h).interval <= 0 /\ nraw[h] >= 1
            /\ wpc[h] # "check") => wpc[h] = "panic"

\* C14 as amended: NewMonitor stores any interval it is given, without a
\* check.  With interval 0 the worker panics on the first raw sample and
\* forwards and discards nothing.  With a negative interval -N the
\* remainder is defined and nothing faults: the worker forwards the samples
\* 0, N, 2N, ... and discards the others, as it does with N.
C14_OnlyZeroFaults ==
    /\ newRet.err = Nil /\ ~newRet.panic
    /\ newRet.mon.interval = argInterval
    /\ \A h \in Calls : Started(h) =>
          LET n == Monitor(h).interval
          IN /\ n = 0 =>
                   /\ (nraw[h] >= 1 /\ wpc[h] # "check") => wpc[h] = "panic"
                   /\ wpc[h] = "panic" <=> crashed
                   /\ nraw[h] <= 1
                   /\ Sent(h) = << >> /\ dropped[h] = {}
             /\ n < 0 =>
                   /\ wpc[h] # "panic" /\ ~crashed
                   /\ \A k \in 1..Len(Sent(h)) :
                         Sent(h)[k].Stats.idx = (k - 1) * (0 - n)
                   /\ \A k \in dropped[h] : k % (0 - n) # 0
                   /\ wpc[h] \in {"recv", "done"} =>
                         /\ Len(Sent(h)) = Qualifying(h)
                         /\ i[h] = nraw[h]

\* C14 witness: with interval -2 the worker has ended after 5 raw samples,
\* of which it forwarded three and discarded two.
C14_Witness ==
    /\ Started(1)
    /\ Monitor(1).interval = 0 - 2
    /\ wpc[1] = "done"
    /\ nraw[1] = 5
    /\ Len(Sent(1)) = 3
    /\ dropped[1] = {1, 3}

\* C15: every handle invocation has an inlet and a counter of its own: the
\* counter of each counts the raw samples of that invocation only, and each
\* forwards its own samples 0, n, 2n, ... whatever the other invocation
\* does, also on the same Monitor at the same time.  handle never changes
\* the Monitor's fields.
C15_PerInvocationState ==
    /\ [](\A h \in Calls : Started(h) =>
             /\ i[h] = Settled(h)
             /\ \A k \in 1..Len(Sent(h)) :
                   Sent(h)[k].Stats.idx = (k - 1) * Monitor(h).interval
             /\ \A k \in dropped[h] : k % Monitor(h).interval # 0
             /\ wpc[h] \in {"recv", "done"} => Len(Sent(h)) = Qualifying(h)
             /\ (inClosed[h] <=> hpc[h] \in {"closing", "returned"}))
    /\ [][mons' = mons]_vars

\* C15 witness: two invocations on the same Monitor (interval 2) ran at the
\* same time, and each forwarded its sample 0 and discarded its sample 1.
C15_Witness ==
    /\ hmon = <<2, 2>>
    /\ overlap
    /\ \A h \in Calls :
          /\ Len(Sent(h)) = 1
          /\ dropped[h] = {1}
          /\ i[h] = 2
    /\ inClosed[1] /\ ~inClosed[2]

\* Some part image[b..e] of the image reference, sanitized, is app.
IsSanitizedPartOf(app, image) ==
    \E b \in 1..Len(image) : \E e \in b..Len(image) :
        /\ HasNameAndTag(SubSeq(image, b, e))
        /\ app = Underscored(SubSeq(image, b, e))

\* C16: when neither environment label gives a non-empty value, the image
\* reference decides: it matches exactly when it has a '/' followed, with
\* no '/' in between, by a ':'.  On no match NewMonitor declines.  On a
\* match the app is the sanitized whole match, registry path, name, ':' and
\* tag: for a reference without a line break that is the whole reference
\* sanitized ("r./a:1.2" gives "r__a:1_2"), never the name alone.
C16_ImageGivesWholeMatch ==
    (/\ Called /\ Inspected
     /\ Lookup(client.container.Config.Env, CHRONOS_JOB_NAME) = << >>
     /\ Lookup(client.container.Config.Env, MARATHON_APP_ID) = << >>) =>
        LET image == client.container.Config.Image
        IN /\ Declined <=> ~HasNameAndTag(image)
           /\ ~HasNameAndTag(image) => ~newRet.panic
           /\ Constructed =>
                 /\ IsSanitizedPartOf(newRet.mon.app, image)
                 /\ NoNewline(image, 1, Len(image)) =>
                       newRet.mon.app = Underscored(image)
                 /\ image = <<"r", ".", "/", "a", ":", "1", ".", "2">> =>
                       newRet.mon.app =
                           <<"r", "_", "_", "a", ":", "1", "_", "2">>

\* C16 witness: a container whose environment sets neither label and whose
\* image is "r./a:1.2" got a Monitor with the app "r__a:1_2".
C16_Witness ==
    /\ Constructed
    /\ client.container.Config.Env = << <<"P", "A", "T", "H", "=", "/">> >>
    /\ client.container.Config.Image =
           <<"r", ".", "/", "a", ":", "1", ".", "2">>
    /\ newRet.mon.app = <<"r", "_", "_", "a", ":", "1", "_", "2">>

\* The raw samples of h the consumer has received.
ReceivedIdx(h) ==
    { received[k].Stats.idx :
        k \in { j \in 1..Len(received) : received[j].Stats.call = h } }

\* The raw samples handed to h before the last one that are to be forwarded.
QualifyingBeforeLast(h) ==
    LET n == Monitor(h).interval
        m == IF n < 0 THEN 0 - n ELSE n
    IN { k \in 0..(nraw[h] - 2) : k % m = 0 }

\* C17 as stated: once handle has returned, every sample to be forwarded,
\* but possibly the last raw sample handed over, has been received by the
\* consumer.
C17_AllButLastReceived ==
    \A h \in Calls :
        (hpc[h] = "returned" /\ Monitor(h).interval # 0) =>
            QualifyingBeforeLast(h) \subseteq ReceivedIdx(h)

\* C17 as amended: once the source has closed the inlet, and so when handle
\* returns, every sample to be forwarded, but possibly the last raw sample
\* handed over, has been sent on the output channel: the consumer has
\* received it or, on a buffered channel, it waits in the buffer (on an
\* unbuffered channel the consumer has received it).  Only the last raw
\* sample can still be in the worker's hands, so the worker may still be
\* running, with that one sample undelivered, after handle has returned.
C17_AtMostLastPending ==
    \A h \in Calls :
        (hpc[h] \in {"closing", "returned"} /\ Monitor(h).interval # 0) =>
            /\ QualifyingBeforeLast(h) \subseteq SentIdx(h)
            /\ outCap = 0 => QualifyingBeforeLast(h) \subseteq ReceivedIdx(h)
            /\ HeldIdx(h) \subseteq {nraw[h] - 1}
            /\ wpc[h] \in {"recv", "check", "send", "done"}
            /\ wpc[h] \in {"recv", "done"} => Len(Sent(h)) = Qualifying(h)
            /\ wpc[h] = "send" => Len(Sent(h)) = Qualifying(h) - 1

\* C17 witness: handle has returned after 3 raw samples with interval 2;
\* sample 0 waits in the buffer of the output channel, not yet received,
\* and the worker still holds sample 2 at the send.
C17_Witness ==
    /\ hpc[1] = "returned"
    /\ Monitor(1).interval = 2
    /\ nraw[1] = 3
    /\ outCap = 1
    /\ received = << >>
    /\ Len(outq) = 1 /\ outq[1].Stats.idx = 0
    /\ wpc[1] = "send" /\ s[1].idx = 2

\* C18: the pipeline never closes the output channel: it is open in every
\* state, also after the source closed the inlet, after client.Stats failed
\* and after the worker ended, and all that was ever put on it are raw
\* samples labelled with the app and the task of the invocation's Monitor.
C18_OutputNeverClosed ==
    /\ ~outClosed
    /\ \A k \in 1..Len(ChannelContent) :
          \E h \in Calls : Started(h) /\ IsSampleOf(ChannelContent[k], h)

\* C18 witness: client.Stats failed after a sample was forwarded, the
\* inlet was closed, handle returned the error and the worker ended: the
\* output channel is open.
C18_Witness ==
    /\ statsRet[1] \in ClientErrors
    /\ inClosed[1]
    /\ hpc[1] = "returned"
    /\ wpc[1] = "done"
    /\ Len(Sent(1)) >= 1
    /\ ~outClosed

\* C19: the value of a variable is that of the first entry NAME=... of the
\* environment, and an empty value is as good as no entry.  With
\* CHRONOS_JOB_NAME absent or empty and MARATHON_APP_ID exactly "/", the
\* app is empty and NewMonitor declines, whether the image reference
\* matches or not; with both absent or empty the image reference alone
\* decides.
C19_FirstEntryEmptyIsAbsent ==
    (Called /\ Inspected) =>
        LET env == client.container.Config.Env
            image == client.container.Config.Image
            chronos == Lookup(env, CHRONOS_JOB_NAME)
            marathon == Lookup(env, MARATHON_APP_ID)
        IN /\ (chronos = << >> /\ marathon = <<"/">>) =>
                 (Declined /\ ~newRet.panic)
           /\ (chronos = << >> /\ marathon # << >> /\ Constructed) =>
                 newRet.mon.app = Underscored(WithoutLeadingSlash(marathon))
           /\ (chronos = << >> /\ marathon = << >>) =>
                 (Declined <=> ~HasNameAndTag(image))
           /\ (chronos # << >> /\ Constructed) =>
                 newRet.mon.app = Underscored(chronos)

\* C19 witness: the first MARATHON_APP_ID entry is "/", a second one is
\* "a", the image reference matches, and NewMonitor declined.
C19_Witness ==
    /\ Declined
    /\ Inspected
    /\ client.container.Config.Env =
           << MARATHON_APP_ID \o <<"=", "/">>,
              MARATHON_APP_ID \o <<"=", "a">> >>
    /\ client.container.Config.Image =
           <<"r", ".", "/", "a", ":", "1", ".", "2">>

====
